---------------------------- MODULE Spec2Model ----------------------------
(***************************************************************************)
(* Path resolution of ehforwarderbot/utils.py: get_base_path,              *)
(* get_data_path, get_config_path, get_cache_path and                      *)
(* get_custom_channel_path, over a model of the process environment, the   *)
(* coordinator's current profile and the directory tree.                   *)
(*                                                                         *)
(* A Python str is a sequence of one-character strings, so that            *)
(* os.path.join, os.path.expanduser and "config.%s" % ext are computed     *)
(* character by character as the library computes them.  A directory of    *)
(* the file system is the sequence of the components of its absolute path. *)
(***************************************************************************)
EXTENDS Integers, Sequences, FiniteSets, TLC

VARIABLES
    environ,    \* os.environ restricted to EFB_DATA_PATH and EFB_CACHE_PATH
    profile,    \* coordinator.profile
    dirs,       \* the directories that exist
    files,      \* the paths that exist and are regular files
    denied,     \* the directories in which this process may not create entries
    last,       \* the call that returned (or raised) last
    prev,       \* the call before it
    changed,    \* the environment or the profile was set since the last call
    ncalls      \* number of calls made so far

vars == <<environ, profile, dirs, files, denied, last, prev, changed, ncalls>>

(***************************************************************************)
(* Bounds and input pools.                                                 *)
(***************************************************************************)
MaxCalls == 2

SEP == "/"
TILDE == "~"

\* "~/.ehforwarderbot/"
DEFAULT_BASE ==
    <<"~", "/", ".", "e", "h", "f", "o", "r", "w", "a", "r", "d", "e", "r", "b", "o", "t", "/">>
\* "~/.ehforwarderbot/.cache/"
DEFAULT_CACHE ==
    <<"~", "/", ".", "e", "h", "f", "o", "r", "w", "a", "r", "d", "e", "r", "b", "o", "t", "/", ".", "c", "a", "c", "h", "e", "/">>
\* "plugins"
PLUGINS ==
    <<"p", "l", "u", "g", "i", "n", "s">>
\* "config."
CONFIG_DOT ==
    <<"c", "o", "n", "f", "i", "g", ".">>
\* "yaml", the default of get_config_path's ext
YAML ==
    <<"y", "a", "m", "l">>
\* "json"
JSON ==
    <<"j", "s", "o", "n">>
\* "a/b": an ext with a separator in it
EXT_sep ==
    <<"a", "/", "b">>
\* $HOME of the process: "/home/alice"
Home ==
    <<"/", "h", "o", "m", "e", "/", "a", "l", "i", "c", "e">>
\* getpass.getuser(): "alice"
User ==
    <<"a", "l", "i", "c", "e">>
\* profiles the coordinator may select: "default", "work"
P_default ==
    <<"d", "e", "f", "a", "u", "l", "t">>
P_work ==
    <<"w", "o", "r", "k">>
\* channel ids: "irc", "/x" (begins with a separator)
CH_irc ==
    <<"i", "r", "c">>
CH_abs ==
    <<"/", "x">>
\* "/x/": a channel id that begins and ends with a separator
CH_abs_dir ==
    <<"/", "x", "/">>
\* "./../work": a channel id written with "." and ".."
CH_dots ==
    <<".", "/", ".", ".", "/", "w", "o", "r", "k">>
\* values of the environment overrides: "/tmp/efb", "/c" and the empty string
V_tmp_efb ==
    <<"/", "t", "m", "p", "/", "e", "f", "b">>
V_cache ==
    <<"/", "c">>
EMPTY == <<>>

EFB_DATA_PATH == "EFB_DATA_PATH"
EFB_CACHE_PATH == "EFB_CACHE_PATH"

Profiles == {P_default, P_work}
Channels == {CH_irc, CH_abs}
\* the channel ids get_data_path is called with
DataChannels == Channels \cup {CH_dots}
\* the channel ids get_config_path is called with, besides None and ""
ConfigChannels == Channels \cup {CH_abs_dir}
\* the values get_config_path's ext is given; it is also called without ext
Exts == {JSON, EXT_sep}
DataValues == {V_tmp_efb, EMPTY}
CacheValues == {V_cache, EMPTY}

(***************************************************************************)
(* Strings.                                                                *)
(***************************************************************************)
StartsWith(s, ch) == Len(s) > 0 /\ s[1] = ch
EndsWith(s, ch) == Len(s) > 0 /\ s[Len(s)] = ch

\* Python truthiness of a str: the empty string is false
Truthy(s) == s # <<>>

\* one step of posixpath.join's loop over the components after the first
JoinStep(path, b) ==
    IF StartsWith(b, SEP) THEN b
    ELSE IF path = <<>> \/ EndsWith(path, SEP) THEN path \o b
    ELSE path \o <<SEP>> \o b

RECURSIVE JoinAll(_, _)
JoinAll(path, ps) ==
    IF ps = <<>> THEN path ELSE JoinAll(JoinStep(path, Head(ps)), Tail(ps))

\* os.path.join(a, *ps)
join(a, ps) == JoinAll(a, ps)

RECURSIVE RStrip(_)
RStrip(s) == IF EndsWith(s, SEP) THEN RStrip(SubSeq(s, 1, Len(s) - 1)) ELSE s

\* index of the first separator of s at or after position i, Len(s)+1 if none
RECURSIVE FindSep(_, _)
FindSep(s, i) ==
    IF i > Len(s) THEN Len(s) + 1
    ELSE IF s[i] = SEP THEN i ELSE FindSep(s, i + 1)

\* os.path.expanduser(path), with HOME set and User the only account
expanduser(path) ==
    IF ~StartsWith(path, TILDE) THEN path
    ELSE LET i == FindSep(path, 2)
             name == SubSeq(path, 2, i - 1)
             rest == SubSeq(path, i, Len(path))
         IN IF i # 2 /\ name # User THEN path
            ELSE LET r == RStrip(Home) \o rest
                 IN IF r = <<>> THEN <<SEP>> ELSE r

(***************************************************************************)
(* The file system.  A directory or a regular file is the sequence of the  *)
(* names on the way to it from the root, with no "." and no ".." in it.    *)
(* A path string is first cut into its names, as written; the kernel then  *)
(* walks them from the root, staying on "." and going up on "..".          *)
(***************************************************************************)
DOT == <<".">>
DOTDOT == <<".", ".">>

\* the names written in the path s from position i on: cut at separators,
\* empty names dropped, "." and ".." kept as written
RECURSIVE Components(_, _)
Components(s, i) ==
    IF i > Len(s) THEN <<>>
    ELSE IF s[i] = SEP THEN Components(s, i + 1)
    ELSE LET j == FindSep(s, i)
         IN <<SubSeq(s, i, j - 1)>> \o Components(s, j)

\* the names of a path string as written (every path here is absolute)
Names(path) == Components(path, 1)

\* posixpath.split on names: the head of a name
Parent(n) == SubSeq(n, 1, Len(n) - 1)

Prefixes(n) == {SubSeq(n, 1, k) : k \in 0..Len(n)}

NoError == "none"

\* the kernel's walk of the names ns from the place cur, among the
\* directories ds: a name is looked up in a directory only, "." stays,
\* ".." goes up (the root is its own parent); the place reached by the last
\* name need not exist
RECURSIVE Walk(_, _, _)
Walk(ds, cur, ns) ==
    IF ns = <<>> THEN [node |-> cur, err |-> NoError]
    ELSE IF cur \in files THEN [node |-> cur, err |-> "NotADirectoryError"]
    ELSE IF cur \notin ds THEN [node |-> cur, err |-> "FileNotFoundError"]
    ELSE LET h == Head(ns)
         IN Walk(ds,
                 IF h = DOT THEN cur
                 ELSE IF h = DOTDOT THEN Parent(cur)
                 ELSE Append(cur, h),
                 Tail(ns))

\* os.path.exists(name)
exists(ds, name) ==
    LET w == Walk(ds, <<>>, name)
    IN w.err = NoError /\ w.node \in ds \cup files

\* os.path.isdir(name)
isdir(ds, name) ==
    LET w == Walk(ds, <<>>, name)
    IN w.err = NoError /\ w.node \in ds

\* the resolvers calling os.makedirs without exist_ok
exist_ok_false == FALSE

\* the exist_ok argument the resolvers pass to os.makedirs
exist_ok == TRUE

\* os.mkdir(name): one creation attempt.  The kernel walks to the parent,
\* which must be a directory; the last name must be new; the parent must be
\* writable.
mkdir(st, name) ==
    LET tried == [st EXCEPT !.attempts = Append(@, name)]
        p == Walk(st.dirs, <<>>, Parent(name))
        l == name[Len(name)]
    IN IF name = <<>>
          THEN [tried EXCEPT !.err = "FileExistsError"]
       ELSE IF p.err # NoError
          THEN [tried EXCEPT !.err = p.err]
       ELSE IF p.node \in files
          THEN [tried EXCEPT !.err = "NotADirectoryError"]
       ELSE IF p.node \notin st.dirs
          THEN [tried EXCEPT !.err = "FileNotFoundError"]
       ELSE IF l \in {DOT, DOTDOT} \/ Append(p.node, l) \in st.dirs \cup files
          THEN [tried EXCEPT !.err = "FileExistsError"]
       ELSE IF p.node \in denied
          THEN [tried EXCEPT !.err = "PermissionError"]
       ELSE [tried EXCEPT !.dirs = @ \cup {Append(p.node, l)}]

\* the leaf step of os.makedirs: mkdir, and with exist_ok an OSError is
\* swallowed when the name is a directory
MkdirLeaf(st, name) ==
    LET r == mkdir(st, name)
    IN IF r.err # NoError /\ exist_ok /\ isdir(r.dirs, name)
       THEN [r EXCEPT !.err = NoError]
       ELSE r

\* os.makedirs(name, exist_ok=True): when the head does not exist it is
\* made first, a FileExistsError of that is passed over, and a tail "."
\* ends the call there; then the leaf
RECURSIVE MakeNode(_, _)
MakeNode(st, name) ==
    IF Len(name) >= 1 /\ ~exists(st.dirs, Parent(name))
    THEN LET r == MakeNode(st, Parent(name))
             st1 == IF r.err = "FileExistsError"
                    THEN [r EXCEPT !.err = NoError]
                    ELSE r
         IN IF st1.err # NoError THEN st1
            ELSE IF name[Len(name)] = DOT THEN st1
            ELSE MkdirLeaf(st1, name)
    ELSE MkdirLeaf(st, name)

\* a statement that calls os.makedirs again when it raised
makedirs_retry(st, path) ==
    IF st.err # NoError THEN st
    ELSE LET r == MakeNode(st, Names(path))
         IN IF r.err = NoError THEN r
            ELSE MakeNode([r EXCEPT !.err = NoError], Names(path))

\* a statement that removes the directory tree before making it
makedirs_fresh(st, path) ==
    IF st.err # NoError THEN st
    ELSE LET n == Walk(st.dirs, <<>>, Names(path)).node
             cleared == [st EXCEPT !.dirs =
                            {d \in @ : ~(Len(d) >= Len(n)
                                         /\ SubSeq(d, 1, Len(n)) = n)}]
         IN MakeNode(cleared, Names(path))

\* a statement os.makedirs(path, exist_ok=True) of a resolver; it is not
\* reached when an earlier statement of the call raised
makedirs(st, path) ==
    IF st.err # NoError THEN st ELSE MakeNode(st, Names(path))

(***************************************************************************)
(* The resolvers.  Each takes the call's state so far (the directories,    *)
(* the creation attempts made, the exception raised if any) and yields the *)
(* state after it and the value it returns.                                *)
(***************************************************************************)
\* os.environ.get(k, None) is truthy
EnvTruthy(k) == k \in DOMAIN environ /\ Truthy(environ[k])

\* a profile read once and kept
stale_profile == P_default

\* the read of coordinator.profile
coordinator_profile == profile

\* the override joined without the user name
get_base_path_nouser(st) ==
    LET base_path == IF EnvTruthy(EFB_DATA_PATH)
                     THEN join(environ[EFB_DATA_PATH], <<EMPTY>>)
                     ELSE expanduser(DEFAULT_BASE)
    IN [st |-> makedirs(st, base_path), ret |-> base_path]

get_base_path(st) ==
    LET base_path == IF EnvTruthy(EFB_DATA_PATH)
                     THEN join(environ[EFB_DATA_PATH], <<User, EMPTY>>)
                     ELSE expanduser(DEFAULT_BASE)
    IN [st |-> makedirs(st, base_path), ret |-> base_path]

\* the data path composed without the profile
get_data_path_noprofile(st, channel_id) ==
    LET b == get_base_path(st)
        data_path == join(b.ret, <<channel_id, EMPTY>>)
    IN [st |-> makedirs(b.st, data_path), ret |-> data_path]

get_data_path(st, channel_id) ==
    LET b == get_base_path(st)
        data_path == join(b.ret, <<coordinator_profile, channel_id, EMPTY>>)
    IN [st |-> makedirs(b.st, data_path), ret |-> data_path]

\* the value of the parameter ext: ext is {} when the caller leaves it out
\* and {e} when the caller passes e; left out it is "yaml"
ext_or_default(ext) == IF ext = {} THEN YAML ELSE CHOOSE e \in ext : TRUE

\* a get_config_path that ignores ext
get_config_path_yaml(st, channel_id, ext) ==
    LET b == get_base_path(st)
        given == \E c \in channel_id : Truthy(c)
        d == IF given
             THEN get_data_path(b.st, CHOOSE c \in channel_id : TRUE)
             ELSE [st |-> b.st, ret |-> join(b.ret, <<coordinator_profile>>)]
    IN [st |-> makedirs(d.st, d.ret),
        ret |-> join(d.ret, <<CONFIG_DOT \o YAML>>)]

\* a get_config_path that makes the returned path itself
get_config_path_mkfile(st, channel_id, ext) ==
    LET b == get_base_path(st)
        given == \E c \in channel_id : Truthy(c)
        d == IF given
             THEN get_data_path(b.st, CHOOSE c \in channel_id : TRUE)
             ELSE [st |-> b.st, ret |-> join(b.ret, <<coordinator_profile>>)]
        config_path == join(d.ret, <<CONFIG_DOT \o ext_or_default(ext)>>)
    IN [st |-> makedirs(d.st, config_path), ret |-> config_path]

\* channel_id is {} for None (the default) and {c} for the string c; ext is
\* {} when left out and {e} for the string e
get_config_path(st, channel_id, ext) ==
    LET b == get_base_path(st)
        given == \E c \in channel_id : Truthy(c)
        d == IF given
             THEN get_data_path(b.st, CHOOSE c \in channel_id : TRUE)
             ELSE [st |-> b.st, ret |-> join(b.ret, <<coordinator_profile>>)]
    IN [st |-> makedirs(d.st, d.ret),
        ret |-> join(d.ret, <<CONFIG_DOT \o ext_or_default(ext)>>)]

\* a cache path that reads the data override
get_cache_path_dataenv(st, channel) ==
    LET base_path ==
            IF EnvTruthy(EFB_DATA_PATH)
            THEN join(environ[EFB_DATA_PATH], <<User, coordinator_profile, channel, EMPTY>>)
            ELSE expanduser(join(expanduser(DEFAULT_CACHE),
                                 <<coordinator_profile, channel, EMPTY>>))
    IN [st |-> makedirs(st, base_path), ret |-> base_path]

get_cache_path(st, channel) ==
    LET base_path ==
            IF EnvTruthy(EFB_CACHE_PATH)
            THEN join(environ[EFB_CACHE_PATH], <<User, coordinator_profile, channel, EMPTY>>)
            ELSE expanduser(join(expanduser(DEFAULT_CACHE),
                                 <<coordinator_profile, channel, EMPTY>>))
    IN [st |-> makedirs(st, base_path), ret |-> base_path]

\* a plugins path under the current profile
get_custom_channel_path_profile(st) ==
    LET b == get_base_path(st)
        channel_path == join(b.ret, <<coordinator_profile, PLUGINS>>)
    IN [st |-> makedirs(b.st, channel_path), ret |-> channel_path]

get_custom_channel_path(st) ==
    LET b == get_base_path(st)
        channel_path == join(b.ret, <<PLUGINS>>)
    IN [st |-> makedirs(b.st, channel_path), ret |-> channel_path]

(***************************************************************************)
(* Calls.  A call is one step: the resolver runs to its return or to the   *)
(* exception it raises.  last records it: the value returned ({} when it   *)
(* raised), the exception, the mkdir attempts it made in order, the        *)
(* directories it created, the profile it ran under, and whether it        *)
(* repeats the call before it (same function, same arguments, environment  *)
(* and profile untouched in between).                                      *)
(***************************************************************************)
NoCall == [op |-> "none", channel |-> {}, ext |-> {}, profile |-> EMPTY,
           err |-> NoError, ret |-> {}]

NoLast == [op |-> "none", channel |-> {}, ext |-> {}, profile |-> EMPTY,
           err |-> NoError, ret |-> {}, attempts |-> <<>>, created |-> {},
           repeat |-> FALSE]

Start == [dirs |-> dirs, attempts |-> <<>>, err |-> NoError]

Summary(l) == [op |-> l.op, channel |-> l.channel, ext |-> l.ext,
               profile |-> l.profile, err |-> l.err, ret |-> l.ret]

\* the call returns r.ret, or raises r.st.err and returns nothing
Return(op, channel, ext, r) ==
    /\ ncalls < MaxCalls
    /\ dirs' = r.st.dirs
    /\ last' = [op |-> op, channel |-> channel, ext |-> ext,
                profile |-> profile,
                err |-> r.st.err,
                ret |-> IF r.st.err = NoError THEN {r.ret} ELSE {},
                attempts |-> r.st.attempts,
                created |-> r.st.dirs \ dirs,
                repeat |-> /\ ~changed
                           /\ last.op = op
                           /\ last.channel = channel
                           /\ last.ext = ext]
    /\ prev' = Summary(last)
    /\ changed' = FALSE
    /\ ncalls' = ncalls + 1
    /\ UNCHANGED <<environ, profile, files, denied>>

CallBasePath == Return("get_base_path", {}, {}, get_base_path(Start))

CallDataPath ==
    \E c \in DataChannels :
        Return("get_data_path", {c}, {}, get_data_path(Start, c))

CallConfigPath ==
    \E c \in {{}, {EMPTY}} \cup {{x} : x \in ConfigChannels} :
    \E e \in {{}} \cup {{x} : x \in Exts} :
        Return("get_config_path", c, e, get_config_path(Start, c, e))

CallCachePath ==
    \E c \in Channels :
        Return("get_cache_path", {c}, {}, get_cache_path(Start, c))

CallCustomChannelPath ==
    Return("get_custom_channel_path", {}, {},
           get_custom_channel_path(Start))

(***************************************************************************)
(* The collaborators: the process environment and the coordinator.  They   *)
(* act between calls; what they set after the last call of a run is read   *)
(* by no call.                                                             *)
(***************************************************************************)
SetEnv ==
    /\ ncalls < MaxCalls
    /\ \E k \in {EFB_DATA_PATH, EFB_CACHE_PATH} :
       \E v \in (IF k = EFB_DATA_PATH THEN DataValues ELSE CacheValues) :
          /\ ~(k \in DOMAIN environ /\ environ[k] = v)
          /\ environ' = [x \in DOMAIN environ \cup {k} |->
                            IF x = k THEN v ELSE environ[x]]
    /\ changed' = TRUE
    /\ UNCHANGED <<profile, dirs, files, denied, last, prev, ncalls>>

UnsetEnv ==
    /\ ncalls < MaxCalls
    /\ \E k \in DOMAIN environ :
          environ' = [x \in DOMAIN environ \ {k} |-> environ[x]]
    /\ changed' = TRUE
    /\ UNCHANGED <<profile, dirs, files, denied, last, prev, ncalls>>

SetProfile ==
    /\ ncalls < MaxCalls
    /\ \E p \in Profiles : p # profile /\ profile' = p
    /\ changed' = TRUE
    /\ UNCHANGED <<environ, dirs, files, denied, last, prev, ncalls>>

(***************************************************************************)
(* Initial states: the home directory and /tmp exist.  The file system is  *)
(* either sound, or faulty: ~/.ehforwarderbot exists and holds a regular   *)
(* file named work where that profile's directory is wanted, /x is a       *)
(* regular file, and /c exists but is read-only.                           *)
(***************************************************************************)
HomeNode == Names(Home)
TmpNode == Names(<<"/", "t", "m", "p">>)
BaseNode == Names(expanduser(DEFAULT_BASE))
\* "/home/alice/.ehforwarderbot/work" as a regular file
CollidingFile == Names(join(expanduser(DEFAULT_BASE), <<P_work>>))
\* "/x" as a regular file
RootFile == Names(CH_abs)
\* "/c" as a directory without write permission
ReadOnlyDir == Names(V_cache)

Init ==
    /\ environ = <<>>
    /\ profile = P_default
    /\ \E faulty \in BOOLEAN :
          /\ dirs = Prefixes(HomeNode) \cup {TmpNode}
                      \cup (IF faulty THEN {BaseNode, ReadOnlyDir} ELSE {})
          /\ files = (IF faulty THEN {CollidingFile, RootFile} ELSE {})
          /\ denied = (IF faulty THEN {ReadOnlyDir} ELSE {})
    /\ last = NoLast
    /\ prev = NoCall
    /\ changed = FALSE
    /\ ncalls = 0

Next ==
    \/ CallBasePath
    \/ CallDataPath
    \/ CallConfigPath
    \/ CallCachePath
    \/ CallCustomChannelPath
    \/ SetEnv
    \/ UnsetEnv
    \/ SetProfile

Spec == Init /\ [][Next]_vars

(***************************************************************************)
(* What the claims speak of.  The expected paths are written out as plain  *)
(* concatenations, the way the documentation writes them                   *)
(* (<base>/<profile>/<channel>/), not with os.path.join.                   *)
(***************************************************************************)
Slash == <<SEP>>
\* "/.ehforwarderbot/"
DOT_EFB ==
    <<"/", ".", "e", "h", "f", "o", "r", "w", "a", "r", "d", "e", "r", "b", "o", "t", "/">>
\* "/.ehforwarderbot/.cache/"
DOT_EFB_CACHE ==
    <<"/", ".", "e", "h", "f", "o", "r", "w", "a", "r", "d", "e", "r", "b", "o", "t", "/", ".", "c", "a", "c", "h", "e", "/">>
\* "/tmp/efb/alice/default/irc/"
ScenarioDataPath ==
    <<"/", "t", "m", "p", "/", "e", "f", "b", "/", "a", "l", "i", "c", "e", "/", "d", "e", "f", "a", "u", "l", "t", "/", "i", "r", "c", "/">>

Ret(l) == CHOOSE r \in l.ret : TRUE
Chan(l) == CHOOSE c \in l.channel : TRUE
Returned(op) == ~changed /\ last.op = op /\ last.err = NoError
Calls == ncalls' = ncalls + 1

\* the ext a call of get_config_path ran with: "yaml" when none was passed
ExtOf(l) == IF l.ext = {} THEN YAML ELSE CHOOSE e \in l.ext : TRUE

\* the path get_config_path returned, without its final config.<ext>
ConfigDir(l) == SubSeq(Ret(l), 1, Len(Ret(l)) - Len(CONFIG_DOT \o ExtOf(l)))

HasSep(s) == \E i \in DOMAIN s : s[i] = SEP
HasDotDot(names) == \E i \in DOMAIN names : names[i] = DOTDOT

\* s, with a separator put after it unless it ends with one
WithSep(s) == IF EndsWith(s, SEP) THEN s ELSE s \o Slash

\* the call l, if it returned, left the directory it returned existing
\* (before and after are the directories before and after it).  For
\* get_config_path the directory is the returned path without config.<ext>;
\* it is the directory containing the returned path when ext has no
\* separator in it; and the returned path, when no ".." is written in it,
\* exists after the call only if it did before.
ReturnedDirectoryExists(l, before, after) ==
    l.err = NoError =>
        LET n == Names(Ret(l))
        IN IF l.op = "get_config_path"
           THEN /\ Ret(l) = ConfigDir(l) \o CONFIG_DOT \o ExtOf(l)
                /\ isdir(after, Names(ConfigDir(l)))
                /\ ~HasSep(ExtOf(l)) => isdir(after, Parent(n))
                /\ ~HasDotDot(n) => (exists(after, n) => exists(before, n))
           ELSE isdir(after, n)

\* the same with the directory containing the returned path, whatever ext
ContainingDirectoryExists(l, after) ==
    l.err = NoError =>
        LET n == Names(Ret(l))
        IN IF l.op = "get_config_path"
           THEN isdir(after, Parent(n))
           ELSE isdir(after, n)

DataSet == EFB_DATA_PATH \in DOMAIN environ
CacheSet == EFB_CACHE_PATH \in DOMAIN environ
DefaultBase == Home \o DOT_EFB
\* what get_base_path returns in the current environment
BaseNow == get_base_path(Start).ret

ExpectedData(c) ==
    IF StartsWith(c, SEP) THEN WithSep(c)
    ELSE BaseNow \o profile \o Slash \o WithSep(c)

ExpectedCache(c) ==
    IF StartsWith(c, SEP) THEN c \o Slash
    ELSE IF CacheSet /\ environ[EFB_CACHE_PATH] # EMPTY
    THEN environ[EFB_CACHE_PATH] \o Slash \o User \o Slash
             \o profile \o Slash \o c \o Slash
    ELSE Home \o DOT_EFB_CACHE \o profile \o Slash \o c \o Slash

ExpectedConfig(channel, ext) ==
    IF channel \in {{}, {EMPTY}}
    THEN BaseNow \o profile \o Slash \o CONFIG_DOT \o ext
    ELSE ExpectedData(CHOOSE c \in channel : TRUE) \o CONFIG_DOT \o ext

(***************************************************************************)
(* The claims.                                                             *)
(***************************************************************************)
PathCalls == {"get_data_path", "get_config_path", "get_cache_path"}

\* C1: a resolver called twice in a row with the same arguments, the
\* environment and the profile untouched in between, ends the second call
\* as the first (same path returned, no failure because the directory now
\* exists) and the second call creates no directory.
C1_Idempotent ==
    last.repeat =>
        /\ last.ret = prev.ret
        /\ last.err = prev.err
        /\ last.created = {}

C1_Witness ==
    /\ last.repeat
    /\ last.op = "get_config_path"
    /\ last.channel = {CH_irc}
    /\ prev.err = NoError
    /\ last.ret = prev.ret
    /\ ~exists(dirs, Names(Ret(last)))
    /\ isdir(dirs, Parent(Names(Ret(last))))

C3_BasePrecedence ==
    Returned("get_base_path") =>
        LET r == Ret(last)
        IN /\ EndsWith(r, SEP)
           /\ (DataSet /\ environ[EFB_DATA_PATH] # EMPTY)
                 => r = environ[EFB_DATA_PATH] \o Slash \o User \o Slash
           /\ (~DataSet \/ environ[EFB_DATA_PATH] = EMPTY)
                 => r = DefaultBase

C3_Witness ==
    /\ Returned("get_base_path")
    /\ prev.op = "get_base_path"
    /\ prev.ret = {V_tmp_efb \o Slash \o User \o Slash}
    /\ ~DataSet
    /\ last.ret = {DefaultBase}

\* C3 as stated: for every value V that EFB_DATA_PATH is set to, the empty
\* string included, get_base_path returns V/<os-user>/.
C3_Original ==
    Returned("get_base_path") =>
        LET r == Ret(last)
        IN /\ EndsWith(r, SEP)
           /\ DataSet => r = environ[EFB_DATA_PATH] \o Slash \o User \o Slash
           /\ ~DataSet => r = DefaultBase

\* C4 (as amended): for a channel id c that does not begin with a separator,
\* get_data_path(c) returns <base><profile>/c/ with <base> the result of
\* get_base_path in the same environment; for a c that begins with a
\* separator it returns c/; the result ends with a separator and names a
\* directory that exists after the call.
C4_DataPath ==
    Returned("get_data_path") =>
        LET r == Ret(last)
            c == Chan(last)
        IN /\ ~StartsWith(c, SEP) => r = BaseNow \o profile \o Slash \o c \o Slash
           /\ StartsWith(c, SEP) => r = c \o Slash
           /\ EndsWith(r, SEP)
           /\ isdir(dirs, Names(r))

C4_Witness ==
    /\ Returned("get_data_path")
    /\ DataSet /\ environ[EFB_DATA_PATH] = V_tmp_efb
    /\ profile = P_default
    /\ last.channel = {CH_irc}
    /\ last.ret = {ScenarioDataPath}
    /\ isdir(dirs, Names(ScenarioDataPath))

\* C4 as stated: for every channel id c, get_data_path(c) returns
\* <base><profile>/c/.
C4_Original ==
    Returned("get_data_path") =>
        LET r == Ret(last)
            c == Chan(last)
        IN /\ r = BaseNow \o profile \o Slash \o c \o Slash
           /\ EndsWith(r, SEP)
           /\ isdir(dirs, Names(r))

\* C5 (as amended): get_config_path returns <base><profile>/config.<ext>
\* when the channel id is None or empty, and get_data_path(c)'s result
\* followed by config.<ext> for any other c, which is
\* <base><profile>/c/config.<ext> when c neither begins nor ends with a
\* separator, c/config.<ext> when c begins with a separator and does not
\* end with one, and c followed by config.<ext> when c begins and ends with
\* one; <ext> is yaml when the call passes no ext, and the ext passed
\* otherwise, which only sets what follows "config.".
C5_ConfigPath ==
    Returned("get_config_path") =>
        LET r == Ret(last)
            e == IF last.ext = {} THEN YAML ELSE CHOOSE x \in last.ext : TRUE
        IN IF last.channel \in {{}, {EMPTY}}
           THEN r = BaseNow \o profile \o Slash \o CONFIG_DOT \o e
           ELSE LET c == Chan(last)
                IN /\ r = get_data_path(Start, c).ret \o CONFIG_DOT \o e
                   /\ (~StartsWith(c, SEP) /\ ~EndsWith(c, SEP)) =>
                        r = BaseNow \o profile \o Slash \o c \o Slash
                              \o CONFIG_DOT \o e
                   /\ (StartsWith(c, SEP) /\ ~EndsWith(c, SEP)) =>
                        r = c \o Slash \o CONFIG_DOT \o e
                   /\ (StartsWith(c, SEP) /\ EndsWith(c, SEP)) =>
                        r = c \o CONFIG_DOT \o e

C5_Witness ==
    /\ Returned("get_config_path")
    /\ prev.op = "get_config_path"
    /\ prev.channel = {CH_abs_dir}
    /\ prev.ext = {}
    /\ prev.ret = {CH_abs_dir \o CONFIG_DOT \o YAML}
    /\ last.channel = {CH_irc}
    /\ last.ext = {JSON}
    /\ profile = P_work
    /\ last.ret = {DefaultBase \o P_work \o Slash \o CH_irc \o Slash
                     \o CONFIG_DOT \o JSON}

\* C5 as stated: with a channel id c, get_config_path returns
\* <base><profile>/c/config.<ext>.
C5_Original ==
    Returned("get_config_path") =>
        LET r == Ret(last)
            e == IF last.ext = {} THEN YAML ELSE CHOOSE x \in last.ext : TRUE
        IN IF last.channel \in {{}, {EMPTY}}
           THEN r = BaseNow \o profile \o Slash \o CONFIG_DOT \o e
           ELSE r = BaseNow \o profile \o Slash \o Chan(last) \o Slash
                      \o CONFIG_DOT \o e

\* C6 (as amended): get_custom_channel_path returns <base>plugins, with
\* <base> the result of get_base_path and no separator at the end; with no
\* override in effect that is <home>/.ehforwarderbot/plugins whatever the
\* profile; the directory exists after the call.
C6_PluginsPath ==
    Returned("get_custom_channel_path") =>
        LET r == Ret(last)
        IN /\ r = BaseNow \o PLUGINS
           /\ ~EndsWith(r, SEP)
           /\ ~DataSet => r = Home \o DOT_EFB \o PLUGINS
           /\ isdir(dirs, Names(r))

C6_Witness ==
    /\ Returned("get_custom_channel_path")
    /\ environ = <<>>
    /\ profile = P_work
    /\ last.ret = {Home \o DOT_EFB \o PLUGINS}

\* C6 as stated: get_custom_channel_path returns <base>plugins/, ending
\* with a separator like the other resolvers.
C6_Original ==
    Returned("get_custom_channel_path") =>
        LET r == Ret(last)
        IN /\ r = BaseNow \o PLUGINS \o Slash
           /\ EndsWith(r, SEP)

\* C7 (as amended): for a channel id c that does not begin with a
\* separator, get_cache_path(c) returns V/<os-user>/<profile>/c/ when
\* EFB_CACHE_PATH is set to a non-empty V and
\* <home>/.ehforwarderbot/.cache/<profile>/c/ when it is unset or empty; for
\* a c that begins with a separator it returns c/; the result ends with a
\* separator, names a directory that exists after the call, and is the same
\* whatever EFB_DATA_PATH is.
C7_CachePath ==
    Returned("get_cache_path") =>
        LET r == Ret(last)
            c == Chan(last)
            set == CacheSet /\ environ[EFB_CACHE_PATH] # EMPTY
        IN /\ (~StartsWith(c, SEP) /\ set) =>
                 r = environ[EFB_CACHE_PATH] \o Slash \o User \o Slash
                       \o profile \o Slash \o c \o Slash
           /\ (~StartsWith(c, SEP) /\ ~set) =>
                 r = Home \o DOT_EFB_CACHE \o profile \o Slash \o c \o Slash
           /\ StartsWith(c, SEP) => r = c \o Slash
           /\ EndsWith(r, SEP)
           /\ isdir(dirs, Names(r))

C7_Witness ==
    /\ Returned("get_cache_path")
    /\ DataSet /\ environ[EFB_DATA_PATH] = V_tmp_efb
    /\ CacheSet /\ environ[EFB_CACHE_PATH] = V_cache
    /\ last.channel = {CH_irc}
    /\ last.ret = {V_cache \o Slash \o User \o Slash \o profile \o Slash
                     \o CH_irc \o Slash}
    /\ Names(Ret(last)) \in last.created

\* C7 as stated: for every channel id c and every value V of
\* EFB_CACHE_PATH, get_cache_path(c) returns V/<os-user>/<profile>/c/, and
\* the default when the variable is not set.
C7_Original ==
    Returned("get_cache_path") =>
        LET r == Ret(last)
            c == Chan(last)
        IN /\ CacheSet =>
                 r = environ[EFB_CACHE_PATH] \o Slash \o User \o Slash
                       \o profile \o Slash \o c \o Slash
           /\ ~CacheSet =>
                 r = Home \o DOT_EFB_CACHE \o profile \o Slash \o c \o Slash

\* C8: a call in which a directory creation fails raises that error and
\* returns no path; the creation that failed is the last one the call
\* attempted, it was attempted once, and the directory was not made some
\* other way (no other attempt of the call is for the same name, as
\* written or as the kernel resolves it); a call that returns leaves every
\* directory it attempted existing.
C8_FailureSurfaces ==
    LET a == last.attempts
        failed == {i \in DOMAIN a : ~isdir(dirs, a[i])}
    IN /\ last.err # NoError =>
            /\ last.ret = {}
            /\ last.err \in {"FileExistsError", "NotADirectoryError",
                             "PermissionError"}
            /\ failed = {Len(a)}
            /\ Cardinality({i \in DOMAIN a : a[i] = a[Len(a)]}) = 1
            /\ Cardinality({i \in DOMAIN a : Walk(dirs, <<>>, a[i])
                                               = Walk(dirs, <<>>, a[Len(a)])}) = 1
       /\ (last.err = NoError /\ last.op # "none") =>
            /\ failed = {}
            /\ last.ret # {}

C8_Witness ==
    /\ last.op = "get_config_path"
    /\ last.err = "FileExistsError"
    /\ last.channel = {CH_abs}
    /\ last.created = {Names(V_tmp_efb), Names(V_tmp_efb \o Slash \o User)}
    /\ last.ret = {}
    /\ last.attempts[Len(last.attempts)] = RootFile

\* C9: no step removes a directory, and a call writes neither the
\* environment variables nor the profile.
C9_OnlyGrows ==
    [][/\ dirs \subseteq dirs'
       /\ Calls => (environ' = environ /\ profile' = profile)]_vars

C9_Witness ==
    /\ ncalls = 2
    /\ prev.op = "get_data_path"
    /\ prev.err = NoError
    /\ isdir(dirs, Names(Ret(prev)))
    /\ last.op = "get_cache_path"
    /\ last.err = "PermissionError"
    /\ last.profile # prev.profile
    /\ CacheSet

=============================================================================
